---- MODULE Spec2Model ----
(***************************************************************************)
(* Model of the certification quiz CLI: the free-text question parser and  *)
(* the quiz request (quiz_engine/generator.py, rag_handler/                *)
(* knowledge_base.py), the quiz session and the user identity (main.py),   *)
(* and the result store client with its provisioning, saves and queries    *)
(* (data_store/dynamo_client.py).                                          *)
(*                                                                         *)
(* Text is a sequence of lexical tokens.  A token stands for a fixed       *)
(* string: a single character the regular expressions look at ("A", ".",   *)
(* ":", " ", "\n"), a literal the code matches ("Answer", "Explanation"),  *)
(* a question marker ("Q1:", "Question 1:"), or a payload word.            *)
(***************************************************************************)
EXTENDS Integers, Sequences, FiniteSets, TLC

VARIABLES
    input,                  \* the blocks the generated text was written from
    text,                   \* _parse_questions: argument
    raw_questions,          \* _parse_questions: segments after split/strip
    seg_i,                  \* _parse_questions: number of segments attempted
    structured_questions,   \* _parse_questions: result list
    ppc,                    \* _parse_questions: position
    pc,                     \* run_quiz: state of the session
    user_id,                \* CertQuizApp.user_id
    topic,                  \* run_quiz: argument
    num_questions,          \* run_quiz: argument, the number requested
    questions,              \* run_quiz: the list create_quiz returned
    qi,                     \* run_quiz: index i of the question presented
    correct_answers,        \* run_quiz: running correct-count
    user_answer,            \* run_quiz: last input, stripped and upper-cased
    accepted,               \* the valid answers accepted so far, in order
    presented,              \* the indices of the questions displayed, in order
    score,                  \* run_quiz: score computed at line 184
    returned,               \* run_quiz: value returned, or the error raised
    saved,                  \* the item run_quiz handed to put_item
    table,                  \* the DynamoDB table: a set of items
    clock,                  \* the wall clock datetime.utcnow() reads
    spc,                    \* save_quiz_result: position, per client instance
    sitem,                  \* save_quiz_result: the item being written
    suid,                   \* the user id of each client instance
    nsaves,                 \* successful save_quiz_result calls per user id
    gpc,                    \* create_quiz: position
    gtopic,                 \* create_quiz: argument topic
    generated_text,         \* create_quiz: text the generation call returned
    rag_calls,              \* retrieve_and_generate calls issued by the request
    parse_calls,            \* _parse_questions calls made by the request
    gresult,                \* create_quiz: list returned, or the error raised
    config_dir,             \* whether the directory ~/.cert_quiz exists
    file_exists,            \* whether ~/.cert_quiz/config.json exists
    config,                 \* the JSON object in config.json, as key-value pairs
    ipc,                    \* _get_or_create_user_id: position of the current run
    cur_id,                 \* _get_or_create_user_id: local user_id (line 83)
    run_ids,                \* the user id each finished run got, in run order
    written,                \* the ids written to config.json, in order
    tstate,                 \* the table in DynamoDB: absent, creating or active
    tschema,                \* the key schema and index the table was created with
    cpc,                    \* DynamoDBClient.__init__: position, per instance
    chk,                    \* _ensure_table_exists: outcome of the existence check
    ncreate,                \* create_table calls of the current construction
    nctor,                  \* constructions started, per instance
    ret                     \* the last store operation of the client and its result

parserVars == <<input, text, raw_questions, seg_i, structured_questions, ppc>>

sessionVars == <<pc, user_id, topic, num_questions, questions, qi,
                 correct_answers, user_answer, accepted, presented, score,
                 returned, saved>>

tableVars == <<table, clock>>

clientVars == <<spc, sitem, suid, nsaves>>

genVars == <<gpc, gtopic, generated_text, rag_calls, parse_calls, gresult>>

idVars == <<config_dir, file_exists, config, ipc, cur_id, run_ids, written>>

provVars == <<tstate, tschema, cpc, chk, ncreate, nctor>>

auxVars == <<genVars, idVars, provVars, ret>>

nonGenVars == <<parserVars, sessionVars, tableVars, clientVars, idVars, provVars, ret>>

nonIdVars == <<parserVars, sessionVars, tableVars, clientVars, genVars, provVars, ret>>

nonProvVars == <<parserVars, sessionVars, clientVars, genVars, idVars, ret>>

nonReadVars == <<parserVars, sessionVars, clientVars, genVars, idVars, provVars>>

vars == <<parserVars, sessionVars, tableVars, clientVars, auxVars>>

----------------------------------------------------------------------------
(* Bounds *)

MaxBlocks == 2
MaxRequested == 2
MaxClock == 2
MaxSaves == 3

----------------------------------------------------------------------------
(* Tokens *)

NL == "\n"
SP == " "
Whitespace == {SP, NL}
Letters == {"A", "B", "C", "D"}
Markers == {"Q1:", "Q2:", "Question 1:"}
\* payload words whose first character is Q and that are not markers
QWords == {"Queues"}
None == "None"

Min(S) == CHOOSE x \in S : \A y \in S : x <= y
Max(S) == CHOOSE x \in S : \A y \in S : x >= y

\* str.strip(): drop leading and trailing whitespace
Strip(s) ==
    LET keep == {i \in 1..Len(s) : s[i] \notin Whitespace}
    IN  IF keep = {} THEN <<>> ELSE SubSeq(s, Min(keep), Max(keep))

\* the pieces of s between the elements of seps (k separators give k+1 pieces)
SplitOn(s, seps) ==
    LET at == {i \in 1..Len(s) : s[i] \in seps}
        n == Cardinality(at)
        pos(k) == CHOOSE p \in at : Cardinality({q \in at : q <= p}) = k
        first(k) == IF k = 1 THEN 1 ELSE pos(k - 1) + 1
        last(k) == IF k = n + 1 THEN Len(s) ELSE pos(k) - 1
    IN  [k \in 1..(n + 1) |-> SubSeq(s, first(k), last(k))]

\* re.split(r'Q\d+:|Question \d+:', text)
SplitQuestions(t) == SplitOn(t, Markers)

\* [q.strip() for q in raw_questions if q.strip()]
StripNonEmpty(pieces) ==
    LET RECURSIVE go(_)
        go(i) == IF i > Len(pieces) THEN <<>>
                 ELSE IF Strip(pieces[i]) = <<>> THEN go(i + 1)
                 ELSE <<Strip(pieces[i])>> \o go(i + 1)
    IN  go(1)

\* raw_q.split('\n')
SplitLines(raw_q) == SplitOn(raw_q, {NL})

\* index of the first non-whitespace token of line at or after p, 0 if none
FirstNonSpace(line, p) ==
    LET rest == {i \in p..Len(line) : line[i] \notin Whitespace}
    IN  IF rest = {} THEN 0 ELSE Min(rest)

\* mutant: the option pattern requires the dot ('^([A-D])\.\s+(.+)$')
option_match_DotOnly(line) ==
    LET k == FirstNonSpace(line, 3)
    IN  IF /\ Len(line) >= 3
           /\ line[1] \in Letters
           /\ line[2] = "."
           /\ line[3] \in Whitespace
           /\ k # 0
        THEN [matched |-> TRUE, letter |-> line[1], text |-> SubSeq(line, k, Len(line))]
        ELSE [matched |-> FALSE, letter |-> None, text |-> <<>>]

\* mutant: the option pattern accepts the letters A-E
option_match_AE(line) ==
    LET p == IF Len(line) >= 2 /\ line[2] \in {".", ":"} THEN 3 ELSE 2
        k == FirstNonSpace(line, p)
    IN  IF /\ Len(line) >= p
           /\ line[1] \in Letters \cup {"E"}
           /\ line[p] \in Whitespace
           /\ k # 0
        THEN [matched |-> TRUE, letter |-> line[1], text |-> SubSeq(line, k, Len(line))]
        ELSE [matched |-> FALSE, letter |-> None, text |-> <<>>]

\* re.match(r'^([A-D])[.:]?\s+(.+)$', line)
option_match(line) ==
    LET p == IF Len(line) >= 2 /\ line[2] \in {".", ":"} THEN 3 ELSE 2
        k == FirstNonSpace(line, p)
    IN  IF /\ Len(line) >= p
           /\ line[1] \in Letters
           /\ line[p] \in Whitespace
           /\ (k # 0 \/ Len(line) > p)
        THEN [matched |-> TRUE, letter |-> line[1],
              text |-> IF k # 0 THEN SubSeq(line, k, Len(line))
                       ELSE SubSeq(line, Len(line), Len(line))]
        ELSE [matched |-> FALSE, letter |-> None, text |-> <<>>]

\* re.match(r'^Answer:?\s+([A-D]).*$', line)
answer_match(line) ==
    LET p == IF Len(line) >= 2 /\ line[2] = ":" THEN 3 ELSE 2
        k == FirstNonSpace(line, p)
    IN  IF /\ Len(line) >= p
           /\ line[1] = "Answer"
           /\ line[p] \in Whitespace
           /\ k # 0
           /\ line[k] \in Letters
        THEN [matched |-> TRUE, letter |-> line[k]]
        ELSE [matched |-> FALSE, letter |-> None]

\* line.startswith('Explanation:')
StartsWithExplanation(line) ==
    Len(line) >= 2 /\ line[1] = "Explanation" /\ line[2] = ":"

\* line.startswith('Q')
StartsWithQ(line) == line # <<>> /\ line[1] \in QWords \cup Markers

\* mutant: a letter already in the dict keeps its first text
SetOption_FirstWins(options, letter, txt) ==
    [l \in DOMAIN options \cup {letter} |->
        IF l \in DOMAIN options THEN options[l] ELSE txt]

\* options[letter] = text
SetOption(options, letter, txt) ==
    [l \in DOMAIN options \cup {letter} |->
        IF l = letter THEN txt ELSE options[l]]

\* the empty dict; explanation None is the empty sequence: the code only ever
\* tests explanation for truth, and None and '' are both false
EmptyScan == [options |-> <<>>, answer |-> None, explanation |-> <<>>]

\* one iteration of "for line in lines[1:]"
ScanLine(st, rawline) ==
    LET line == Strip(rawline)
        om == option_match(line)
        am == answer_match(line)
    IN  IF line = <<>> THEN st
        ELSE [options |-> IF om.matched
                          THEN SetOption(st.options, om.letter, om.text)
                          ELSE st.options,
              answer |-> IF am.matched THEN am.letter ELSE st.answer,
              explanation |->
                  IF StartsWithExplanation(line)
                  THEN Strip(SubSeq(line, 3, Len(line)))
                  ELSE IF /\ st.explanation # <<>>
                          /\ ~om.matched
                          /\ ~am.matched
                          /\ ~StartsWithQ(line)
                       THEN st.explanation \o <<SP>> \o line
                       ELSE st.explanation]

\* mutant: the scan starts at the stem line (lines instead of lines[1:])
ScanLines_FromStem(lines) ==
    LET RECURSIVE go(_, _)
        go(i, st) == IF i > Len(lines) THEN st
                     ELSE go(i + 1, ScanLine(st, lines[i]))
    IN  go(1, EmptyScan)

ScanLines(lines) ==
    LET RECURSIVE go(_, _)
        go(i, st) == IF i > Len(lines) THEN st
                     ELSE go(i + 1, ScanLine(st, lines[i]))
    IN  go(2, EmptyScan)

\* mutant: the final condition without len(options) == 4
Complete4_AnyCount(question_text, st) ==
    /\ question_text # <<>>
    /\ DOMAIN st.options # {}
    /\ st.answer # None
    /\ st.explanation # <<>>

\* len(options) == 4 and the truth tests of the final condition
Complete4(question_text, st) ==
    /\ question_text # <<>>
    /\ DOMAIN st.options # {}
    /\ st.answer # None
    /\ st.explanation # <<>>
    /\ Cardinality(DOMAIN st.options) = 4

\* the body of "for i, raw_q in enumerate(raw_questions)": the records the
\* segment appends to structured_questions (none or one)
ParseSegment(raw_q) ==
    LET lines == SplitLines(raw_q)
        question_text == Strip(lines[1])
        st == ScanLines(lines)
    IN  IF Complete4(question_text, st)
        THEN <<[question |-> question_text, options |-> st.options,
                answer |-> st.answer, explanation |-> st.explanation]>>
        ELSE <<>>

\* _parse_questions as a function of its argument
ParseAll(segs) ==
    LET RECURSIVE go(_)
        go(i) == IF i > Len(segs) THEN <<>>
                 ELSE ParseSegment(segs[i]) \o go(i + 1)
    IN  go(1)

parse_questions(t) == ParseAll(StripNonEmpty(SplitQuestions(t)))

----------------------------------------------------------------------------
(* Generated texts: the inputs of _parse_questions.  A text is written from *)
(* an optional preamble and up to MaxBlocks question blocks in the format   *)
(* of the prompt (generator.py lines 69-77), each block possibly deviating  *)
(* from it.                                                                 *)

\* words joined by single spaces
Sent(ws) ==
    LET RECURSIVE go(_)
        go(i) == IF i > Len(ws) THEN <<>>
                 ELSE IF i = Len(ws) THEN <<ws[i]>>
                 ELSE <<ws[i], SP>> \o go(i + 1)
    IN  go(1)

Opt(l, p, t) == [letter |-> l, punct |-> p, text |-> t]

Blk(m, s, o, a, h, e, c) ==
    [marker |-> m, stem |-> s, optlines |-> o, ans |-> a,
     hasExpl |-> h, expl |-> e, cont |-> c]

Dot == <<".">>
Colon == <<":">>
Bare == <<>>

FourOpts(k) ==
    <<Opt("A", Dot, <<"a" \o k>>), Opt("B", Dot, <<"b" \o k>>),
      Opt("C", Dot, <<"c" \o k>>), Opt("D", Dot, <<"d" \o k>>)>>

\* the block of the end-to-end example
BlockExample ==
    Blk("Q1:", Sent(<<"What", "is", "X?">>),
        <<Opt("A", Dot, <<"Opt1">>), Opt("B", Dot, <<"Opt2">>),
          Opt("C", Dot, <<"Opt3">>), Opt("D", Dot, <<"Opt4">>)>>,
        "B", TRUE, Sent(<<"Because", "reasons.">>), <<>>)

\* options out of order, with the three separators the option pattern allows
BlockPermuted ==
    Blk("Question 1:", Sent(<<"Which", "one?">>),
        <<Opt("D", Colon, <<"d2">>), Opt("B", Bare, Sent(<<"b2", "x">>)),
          Opt("A", Dot, <<"a2">>), Opt("C", Dot, <<"c2">>)>>,
        "D", TRUE, <<"e2">>, <<>>)

BlockNoStem == Blk("Q2:", <<>>, FourOpts("3"), "A", TRUE, <<"e3">>, <<>>)

BlockThreeOpts ==
    Blk("Q2:", <<"s4">>,
        <<Opt("A", Dot, <<"a4">>), Opt("B", Dot, <<"b4">>),
          Opt("D", Dot, <<"d4">>)>>,
        "A", TRUE, <<"e4">>, <<>>)

BlockNoAnswer == Blk("Q1:", <<"s5">>, FourOpts("5"), None, TRUE, <<"e5">>, <<>>)

BlockNoExpl == Blk("Q2:", <<"s6">>, FourOpts("6"), "C", FALSE, <<>>, <<>>)

\* "Explanation:" with nothing after the label, the text on the next line
BlockLateExpl ==
    Blk("Q1:", <<"s7">>, FourOpts("7"), "B", TRUE, <<>>,
        <<Sent(<<"late", "text">>)>>)

\* option lines A, B, B, C, D
BlockDupB ==
    Blk("Q2:", <<"s8">>,
        <<Opt("A", Dot, <<"a8">>), Opt("B", Dot, <<"b8">>),
          Opt("B", Dot, <<"b8again">>), Opt("C", Dot, <<"c8">>),
          Opt("D", Dot, <<"d8">>)>>,
        "B", TRUE, <<"e8">>, <<>>)

\* option lines A, B, C, D and a stray lettered line E
BlockStrayE ==
    Blk("Q1:", <<"s9">>, FourOpts("9") \o <<Opt("E", Dot, <<"stray">>)>>,
        "C", TRUE, <<"e9">>, <<>>)

\* explanation over three lines with a blank line in between
BlockMultiLine ==
    Blk("Q2:", <<"s10">>, FourOpts("10"), "A", TRUE, <<"e10">>,
        <<Sent(<<"more", "detail">>), <<>>, <<"end">>>>)

\* explanation continued by a line whose first word starts with Q
BlockQLine ==
    Blk("Q1:", <<"s11">>, FourOpts("11"), "D", TRUE, <<"e11">>,
        <<Sent(<<"Queues", "are", "FIFO.">>), <<"tail">>>>)

\* lines after the explanation that are an option line and an answer line
BlockLateLines ==
    Blk("Q2:", <<"s12">>, FourOpts("12"), "A", TRUE, <<"e12">>,
        <<<<"A", ".", SP, "late">>, <<"Answer", ":", SP, "C">>, <<"rest">>>>)

Blocks ==
    {BlockExample, BlockPermuted, BlockNoStem, BlockThreeOpts, BlockNoAnswer,
     BlockNoExpl, BlockLateExpl, BlockDupB, BlockStrayE, BlockMultiLine,
     BlockQLine, BlockLateLines}

OptionLine(o) == <<o.letter>> \o o.punct \o <<SP>> \o o.text

JoinLines(ls) ==
    LET RECURSIVE go(_)
        go(i) == IF i > Len(ls) THEN <<>> ELSE ls[i] \o <<NL>> \o go(i + 1)
    IN  go(1)

BodyLines(b) ==
    [i \in 1..Len(b.optlines) |-> OptionLine(b.optlines[i])]
    \o (IF b.ans = None THEN <<>> ELSE <<<<"Answer", ":", SP, b.ans>>>>)
    \o (IF b.hasExpl
        THEN <<<<"Explanation", ":">>
               \o (IF b.expl = <<>> THEN <<>> ELSE <<SP>> \o b.expl)>>
        ELSE <<>>)
    \o b.cont

RenderBlock(b) ==
    JoinLines(<<<<b.marker>> \o (IF b.stem = <<>> THEN <<>> ELSE <<SP>> \o b.stem)>>
              \o BodyLines(b))
    \o <<NL>>

\* text before the first marker: none, an introduction, or a whole block
\* written without its marker
PreNone == <<>>
PreIntro == Sent(<<"Here", "are", "your", "questions:">>) \o <<NL, NL>>
PreBlock == JoinLines(<<<<"s0">>>> \o BodyLines(BlockExample)) \o <<NL>>
Preambles == {PreNone, PreIntro, PreBlock}

BlockSeqs == UNION {[1..n -> Blocks] : n \in 0..MaxBlocks}

Render(in) ==
    LET RECURSIVE go(_)
        go(i) == IF i > Len(in.blocks) THEN <<>>
                 ELSE RenderBlock(in.blocks[i]) \o go(i + 1)
    IN  in.pre \o go(1)

Inputs == [pre : Preambles, blocks : BlockSeqs]

----------------------------------------------------------------------------
(* Values of the parts of the state an operation has not set yet *)

NoScore == <<0, 0>>
NoItem == [user_id |-> None, timestamp |-> 0, topic |-> None,
           score |-> NoScore, num_questions |-> 0, difficulty |-> None]
Instances == {1, 2}
Users == {"u1", "u2"}

ParserIdle ==
    /\ input = [pre |-> PreNone, blocks |-> <<>>]
    /\ text = <<>>
    /\ raw_questions = <<>>
    /\ seg_i = 0
    /\ structured_questions = <<>>
    /\ ppc = "idle"

SessionIdle ==
    /\ pc = "idle"
    /\ user_id = None
    /\ topic = None
    /\ num_questions = 0
    /\ questions = <<>>
    /\ qi = 0
    /\ correct_answers = 0
    /\ user_answer = <<None>>
    /\ accepted = <<>>
    /\ presented = <<>>
    /\ score = NoScore
    /\ returned = None
    /\ saved = NoItem

ClientsIdle ==
    /\ spc = [i \in Instances |-> "idle"]
    /\ sitem = [i \in Instances |-> NoItem]
    /\ suid = [i \in Instances |-> None]
    /\ nsaves = [u \in Users |-> 0]

TableIdle == table = {} /\ clock = 0

GenIdle ==
    /\ gpc = "idle"
    /\ gtopic = None
    /\ generated_text = <<>>
    /\ rag_calls = 0
    /\ parse_calls = 0
    /\ gresult = None

IdIdle ==
    /\ config_dir = FALSE
    /\ file_exists = FALSE
    /\ config = {}
    /\ ipc = "idle"
    /\ cur_id = None
    /\ run_ids = <<>>
    /\ written = <<>>

\* KeySchema (lines 55-64) and the TopicIndex KeySchema (lines 79-100)
Schema == [key |-> <<"user_id", "timestamp">>, TopicIndex |-> <<"user_id", "topic">>]

\* the table exists, as the other operations take for granted
ProvIdle ==
    /\ tstate = "active"
    /\ tschema = Schema
    /\ cpc = [i \in Instances |-> "idle"]
    /\ chk = [i \in Instances |-> None]
    /\ ncreate = [i \in Instances |-> 0]
    /\ nctor = [i \in Instances |-> 0]

NoRet == [op |-> None, user |-> None, arg |-> None, raised |-> FALSE, value |-> None]

ReadIdle == ret = NoRet

AuxIdle == GenIdle /\ IdIdle /\ ProvIdle /\ ReadIdle

----------------------------------------------------------------------------
(* _parse_questions, one step per segment *)

InitParse ==
    /\ SessionIdle /\ ClientsIdle /\ TableIdle /\ AuxIdle
    /\ input \in Inputs
    /\ text = Render(input)
    /\ raw_questions = <<>>
    /\ seg_i = 0
    /\ structured_questions = <<>>
    /\ ppc = "split"

Split ==
    /\ ppc = "split"
    /\ raw_questions' = StripNonEmpty(SplitQuestions(text))
    /\ ppc' = "loop"
    /\ UNCHANGED <<input, text, seg_i, structured_questions>>
    /\ UNCHANGED <<sessionVars, tableVars, clientVars, auxVars>>

ParseNext ==
    /\ ppc = "loop"
    /\ seg_i < Len(raw_questions)
    /\ structured_questions' =
           structured_questions \o ParseSegment(raw_questions[seg_i + 1])
    /\ seg_i' = seg_i + 1
    /\ UNCHANGED <<input, text, raw_questions, ppc>>
    /\ UNCHANGED <<sessionVars, tableVars, clientVars, auxVars>>

ParseReturn ==
    /\ ppc = "loop"
    /\ seg_i = Len(raw_questions)
    /\ ppc' = "done"
    /\ UNCHANGED <<input, text, raw_questions, seg_i, structured_questions>>
    /\ UNCHANGED <<sessionVars, tableVars, clientVars, auxVars>>

NextParse == Split \/ ParseNext \/ ParseReturn

SpecParse == InitParse /\ [][NextParse]_vars

----------------------------------------------------------------------------
(* Claims about _parse_questions, checked under SpecParse *)

\* a block in the format of the prompt: marker, stem, one option line for
\* each of A-D in any order, an answer line, a one-line explanation
WellFormed(b) ==
    /\ b.stem # <<>>
    /\ Len(b.optlines) = 4
    /\ {b.optlines[i].letter : i \in 1..4} = Letters
    /\ b.ans \in Letters
    /\ b.hasExpl
    /\ b.expl # <<>>
    /\ b.cont = <<>>

\* the record a well-formed block describes
Described(b) ==
    [question |-> b.stem,
     options |-> [l \in Letters |->
                    (CHOOSE o \in {b.optlines[i] : i \in 1..4} : o.letter = l).text],
     answer |-> b.ans,
     explanation |-> b.expl]

Parsed == ppc = "done"

\* C1: every record _parse_questions returns has a non-empty stem, exactly 4
\* options keyed by letters of A-D, an answer letter of A-D that is a key of
\* its options, and a non-empty explanation.
C1_RecordsComplete ==
    \A j \in 1..Len(structured_questions) :
        LET q == structured_questions[j]
        IN  /\ q.question # <<>>
            /\ DOMAIN q.options \subseteq Letters
            /\ Cardinality(DOMAIN q.options) = 4
            /\ q.answer \in Letters
            /\ q.answer \in DOMAIN q.options
            /\ q.explanation # <<>>

C1_Witness == Parsed /\ Len(structured_questions) >= 1 /\ Len(raw_questions) >= 2

\* C2: a text of N well-formed blocks parses to exactly N records, in input
\* order, the i-th carrying the stem, option texts, answer letter and
\* explanation of the i-th block; the end-to-end example parses to the one
\* record the specification gives.
C2_WellFormedParsed ==
    (/\ Parsed
     /\ input.pre = PreNone
     /\ \A i \in 1..Len(input.blocks) : WellFormed(input.blocks[i]))
    => /\ structured_questions =
              [i \in 1..Len(input.blocks) |-> Described(input.blocks[i])]
       /\ input.blocks = <<BlockExample>> =>
              structured_questions =
                  <<[question |-> <<"What", SP, "is", SP, "X?">>,
                     options |-> [l \in Letters |->
                         CASE l = "A" -> <<"Opt1">> [] l = "B" -> <<"Opt2">>
                           [] l = "C" -> <<"Opt3">> [] l = "D" -> <<"Opt4">>],
                     answer |-> "B",
                     explanation |-> <<"Because", SP, "reasons.">>]>>

C2_Witness ==
    /\ Parsed
    /\ input.pre = PreNone
    /\ input.blocks = <<BlockPermuted, BlockExample>>
    /\ Len(structured_questions) = 2

\* what makes a segment valid, read off its lines: a stem, an option line for
\* each of A-D, an answer line, and a last Explanation line with text
SegLines(seg) == [i \in 1..Len(SplitLines(seg)) |-> Strip(SplitLines(seg)[i])]

SegValid(seg) ==
    LET ls == SegLines(seg)
        body == 2..Len(ls)
        expl == {i \in body : StartsWithExplanation(ls[i])}
    IN  /\ ls[1] # <<>>
        /\ \A l \in Letters :
               \E i \in body : option_match(ls[i]).matched
                               /\ option_match(ls[i]).letter = l
        /\ \E i \in body : answer_match(ls[i]).matched
        /\ expl # {}
        /\ Len(ls[Max(expl)]) > 2

ValidStems(segs) ==
    LET RECURSIVE go(_)
        go(i) == IF i > Len(segs) THEN <<>>
                 ELSE (IF SegValid(segs[i]) THEN <<SegLines(segs[i])[1]>> ELSE <<>>)
                      \o go(i + 1)
    IN  go(1)

\* C3: a malformed segment is dropped without affecting any other: the
\* returned list is exactly the valid segments in input order, and every
\* segment has been attempted when _parse_questions returns.
C3_MalformedDropped ==
    Parsed =>
        /\ seg_i = Len(raw_questions)
        /\ [j \in 1..Len(structured_questions) |-> structured_questions[j].question]
               = ValidStems(raw_questions)

C3_Witness ==
    /\ Parsed
    /\ \E i, j \in 1..Len(raw_questions) :
           i < j /\ ~SegValid(raw_questions[i]) /\ SegValid(raw_questions[j])
    /\ \E i, j \in 1..Len(raw_questions) :
           i < j /\ SegValid(raw_questions[i]) /\ ~SegValid(raw_questions[j])

StemEmitted(b) ==
    \E j \in 1..Len(structured_questions) :
        /\ structured_questions[j].question = b.stem
        /\ Cardinality(DOMAIN structured_questions[j].options) = 4

\* a block with four option lines for A-D and a fifth lettered line
FiveLettered(b) ==
    /\ Len(b.optlines) = 5
    /\ Letters \subseteq {b.optlines[i].letter : i \in 1..5}

\* a block whose option lines cover fewer than four letters of A-D
FewerLetters(b) ==
    Cardinality({b.optlines[i].letter : i \in 1..Len(b.optlines)} \cap Letters) < 4

\* C4 as stated: a block with a fifth stray lettered line in addition to its
\* four option lines yields no Question, just as a block with 3 options.
C4_FiveDropped ==
    Parsed =>
        \A i \in 1..Len(input.blocks) :
            (FiveLettered(input.blocks[i]) \/ FewerLetters(input.blocks[i]))
            => ~StemEmitted(input.blocks[i])

\* C4 amended: a block with only 3 options yields no Question; a block
\* otherwise complete with a fifth lettered line is kept, with exactly 4
\* options (a repeated letter overwrites, any other letter is no option line).
C4_FiveKept ==
    Parsed =>
        \A i \in 1..Len(input.blocks) :
            LET b == input.blocks[i]
            IN  /\ FewerLetters(b) => ~StemEmitted(b)
                /\ (FiveLettered(b) /\ b.stem # <<>> /\ b.ans \in Letters
                    /\ b.hasExpl /\ b.expl # <<>>) => StemEmitted(b)

C4_Witness ==
    /\ Parsed
    /\ input.blocks = <<BlockStrayE, BlockThreeOpts>>
    /\ Len(structured_questions) >= 1

\* the lines after the Explanation line that the claim says are appended
Appendable(line) ==
    /\ Strip(line) # <<>>
    /\ ~option_match(Strip(line)).matched
    /\ ~answer_match(Strip(line)).matched
    /\ Strip(line)[1] \notin Markers

Continued(b) ==
    LET RECURSIVE go(_)
        go(i) == IF i > Len(b.cont) THEN <<>>
                 ELSE (IF Appendable(b.cont[i])
                       THEN <<SP>> \o Strip(b.cont[i]) ELSE <<>>)
                      \o go(i + 1)
    IN  b.expl \o go(1)

\* C5: every non-empty line after the Explanation line that is not an option
\* line, an answer line or a question marker is appended, space-separated and
\* in order, to the emitted explanation.
C5_ContinuationAppended ==
    Parsed =>
        \A i \in 1..Len(input.blocks) :
            \A j \in 1..Len(structured_questions) :
                (/\ input.blocks[i].hasExpl
                 /\ structured_questions[j].question = input.blocks[i].stem)
                => structured_questions[j].explanation = Continued(input.blocks[i])

----------------------------------------------------------------------------
(* The result store: data_store/dynamo_client.py *)

Topics == {"S3", "General Knowledge"}
Difficulty == "medium"

\* the table's primary key: user_id (HASH), timestamp (RANGE)
SameKey(a, b) == a.user_id = b.user_id /\ a.timestamp = b.timestamp

\* table.put_item(Item=item): the item takes the place of any item that has
\* the same primary key
put_item(t, item) == {r \in t : ~SameKey(r, item)} \cup {item}

\* the Item save_quiz_result builds from its arguments and the timestamp
Item(u, ts, tp, sc, n, d) ==
    [user_id |-> u, timestamp |-> ts, topic |-> tp, score |-> sc,
     num_questions |-> n, difficulty |-> d]

\* the wall clock advances
Tick ==
    /\ clock < MaxClock
    /\ clock' = clock + 1
    /\ UNCHANGED <<parserVars, sessionVars, table, clientVars, auxVars>>

----------------------------------------------------------------------------
(* The quiz session: main.py run_quiz *)

\* greatest common divisor, for scores kept as fractions in lowest terms
RECURSIVE Gcd(_, _)
Gcd(a, b) == IF b = 0 THEN a ELSE Gcd(b, a % b)

\* mutant: integer division, (correct_answers // len(questions)) * 100
Score_IntDiv(correct, total) == <<(correct \div total) * 100, 1>>

\* (correct_answers / len(questions)) * 100, for len(questions) > 0, as the
\* fraction <<numerator, denominator>> in lowest terms
Score(correct, total) ==
    LET g == Gcd(correct * 100, total)
    IN  <<(correct * 100) \div g, total \div g>>

\* .upper() on the characters of an input line
Upper(s) ==
    [i \in 1..Len(s) |->
        CASE s[i] = "a" -> "A" [] s[i] = "b" -> "B" [] s[i] = "c" -> "C"
          [] s[i] = "d" -> "D" [] s[i] = "e" -> "E" [] OTHER -> s[i]]

\* mutant: the letter E passes the validity test
ValidAnswers_AE == {<<l>> : l \in Letters \cup {"E"}}

\* user_answer in ['A', 'B', 'C', 'D']
ValidAnswers == {<<l>> : l \in Letters}

\* the lines the user may type at the prompt, as character sequences
RawInputs ==
    {<<"a">>, <<SP, "B", SP>>, <<"c", NL>>, <<"D">>,
     <<"e">>, <<>>, <<SP, SP>>, <<"A", "B">>}

DEFAULT_NUM_QUESTIONS == 5

Requested == 1..MaxRequested \cup {DEFAULT_NUM_QUESTIONS}

\* what retrieve_and_generate may return for a quiz request: texts of up to
\* MaxBlocks blocks, and one text of five well-formed blocks
QuizBlocks == {BlockExample, BlockPermuted, BlockThreeOpts}
FiveBlocks ==
    <<BlockExample, BlockPermuted, BlockExample, BlockPermuted, BlockExample>>
QuizInputs ==
    [pre : {PreNone},
     blocks : UNION {[1..n -> QuizBlocks] : n \in 0..MaxBlocks} \cup {FiveBlocks}]

\* an item of an earlier session that may already be stored
OldItem == Item("u1", 0, "S3", <<50, 1>>, 2, Difficulty)

Init ==
    /\ ParserIdle /\ ClientsIdle /\ AuxIdle
    /\ pc = "NotStarted"
    /\ user_id = "u1"
    /\ topic \in Topics
    /\ num_questions \in Requested
    /\ questions = <<>>
    /\ qi = 0
    /\ correct_answers = 0
    /\ user_answer = <<None>>
    /\ accepted = <<>>
    /\ presented = <<>>
    /\ score = NoScore
    /\ returned = None
    /\ saved = NoItem
    /\ table \in {{}, {OldItem}}
    /\ clock = 0

\* lines 141-155: create_quiz returns the parsed questions; the for loop is
\* entered at question 0, or skipped when the list is empty
QuizGenerated ==
    /\ pc = "NotStarted"
    /\ \E in \in QuizInputs :
           /\ questions' = parse_questions(Render(in))
           /\ pc' = IF questions' = <<>> THEN "Scoring" ELSE "Presenting"
           /\ presented' = IF questions' = <<>> THEN <<>> ELSE <<0>>
    /\ correct_answers' = 0
    /\ qi' = 0
    /\ UNCHANGED <<user_id, topic, num_questions, user_answer, accepted,
                   score, returned, saved>>
    /\ UNCHANGED <<parserVars, tableVars, clientVars, auxVars>>

\* lines 141-146: create_quiz raises the ClientError of the generation call
QuizFailed ==
    /\ pc = "NotStarted"
    /\ pc' = "Failed"
    /\ returned' = "ClientError"
    /\ UNCHANGED <<user_id, topic, num_questions, questions, qi,
                   correct_answers, user_answer, accepted, presented, score,
                   saved>>
    /\ UNCHANGED <<parserVars, tableVars, clientVars, auxVars>>

\* mutant: the prompt loop is left after one input, valid or not; an invalid
\* answer counts as incorrect and is not recorded
Answer_NoReprompt(raw) ==
    /\ pc = "Presenting"
    /\ LET ua == Upper(Strip(raw))
       IN  /\ user_answer' = ua
           /\ correct_answers' =
                  IF ua = <<questions[qi + 1].answer>>
                  THEN correct_answers + 1 ELSE correct_answers
           /\ accepted' = IF ua \in {<<l>> : l \in Letters}
                          THEN Append(accepted, ua) ELSE accepted
           /\ qi' = qi + 1
           /\ IF qi + 1 < Len(questions)
              THEN pc' = "Presenting" /\ presented' = Append(presented, qi + 1)
              ELSE pc' = "Scoring" /\ presented' = presented
    /\ UNCHANGED <<user_id, topic, num_questions, questions, score, returned,
                   saved>>
    /\ UNCHANGED <<parserVars, tableVars, clientVars, auxVars>>

\* mutant: the result is saved after every accepted answer, with the score
\* so far, instead of once after the loop
Answer_SavesEach(raw) ==
    /\ pc = "Presenting"
    /\ LET ua == Upper(Strip(raw))
       IN  /\ user_answer' = ua
           /\ IF ua \in {<<l>> : l \in Letters}
              THEN /\ correct_answers' =
                          IF ua = <<questions[qi + 1].answer>>
                          THEN correct_answers + 1 ELSE correct_answers
                   /\ accepted' = Append(accepted, ua)
                   /\ qi' = qi + 1
                   /\ saved' = Item(user_id, clock, topic,
                                    Score(correct_answers', qi'),
                                    num_questions, Difficulty)
                   /\ table' = put_item(table, saved')
                   /\ IF qi + 1 < Len(questions)
                      THEN pc' = "Presenting" /\ presented' = Append(presented, qi + 1)
                      ELSE pc' = "Scoring" /\ presented' = presented
              ELSE UNCHANGED <<correct_answers, accepted, qi, pc, presented,
                               saved, table>>
    /\ UNCHANGED <<user_id, topic, num_questions, questions, score, returned>>
    /\ UNCHANGED <<parserVars, clock, clientVars, auxVars>>

\* mutant: an invalid input ends the session with an error instead of a
\* re-prompt
Answer_FailsOnInvalid(raw) ==
    /\ pc = "Presenting"
    /\ LET ua == Upper(Strip(raw))
       IN  /\ user_answer' = ua
           /\ IF ua \in {<<l>> : l \in Letters}
              THEN /\ correct_answers' =
                          IF ua = <<questions[qi + 1].answer>>
                          THEN correct_answers + 1 ELSE correct_answers
                   /\ accepted' = Append(accepted, ua)
                   /\ qi' = qi + 1
                   /\ returned' = returned
                   /\ IF qi + 1 < Len(questions)
                      THEN pc' = "Presenting" /\ presented' = Append(presented, qi + 1)
                      ELSE pc' = "Scoring" /\ presented' = presented
              ELSE /\ pc' = "Failed"
                   /\ returned' = "ValueError"
                   /\ UNCHANGED <<correct_answers, accepted, qi, presented>>
    /\ UNCHANGED <<user_id, topic, num_questions, questions, score, saved>>
    /\ UNCHANGED <<parserVars, tableVars, clientVars, auxVars>>

\* lines 166-181: one input() at the prompt of question qi.  An invalid
\* input prints the message and prompts again; a valid one is compared with
\* the recorded answer and the loop moves to the next question
Answer(raw) ==
    /\ pc = "Presenting"
    /\ LET ua == Upper(Strip(raw))
       IN  /\ user_answer' = ua
           /\ IF ua \in ValidAnswers
              THEN /\ correct_answers' =
                          IF ua = <<questions[qi + 1].answer>>
                          THEN correct_answers + 1 ELSE correct_answers
                   /\ accepted' = Append(accepted, ua)
                   /\ qi' = qi + 1
                   /\ IF qi + 1 < Len(questions)
                      THEN pc' = "Presenting" /\ presented' = Append(presented, qi + 1)
                      ELSE pc' = "Scoring" /\ presented' = presented
              ELSE UNCHANGED <<correct_answers, accepted, qi, pc, presented>>
    /\ UNCHANGED <<user_id, topic, num_questions, questions, score, returned,
                   saved>>
    /\ UNCHANGED <<parserVars, tableVars, clientVars, auxVars>>

\* the item run_quiz hands to save_quiz_result (lines 196-202) with the
\* timestamp save_quiz_result reads (dynamo_client.py line 128)
SessionItem(sc) ==
    Item(user_id, clock, topic, sc, num_questions, Difficulty)

\* mutant: an empty list is scored 0 and the session completes
ScoreFails_ZeroScore ==
    /\ pc = "Scoring"
    /\ Len(questions) = 0
    /\ score' = <<0, 1>>
    /\ saved' = Item(user_id, clock, topic, score', num_questions, Difficulty)
    /\ table' = put_item(table, saved')
    /\ returned' = score'
    /\ pc' = "Complete"
    /\ UNCHANGED <<user_id, topic, num_questions, questions, qi,
                   correct_answers, user_answer, accepted, presented>>
    /\ UNCHANGED <<parserVars, clock, clientVars, auxVars>>

\* line 184 with an empty list: ZeroDivisionError
ScoreFails ==
    /\ pc = "Scoring"
    /\ Len(questions) = 0
    /\ pc' = "Failed"
    /\ returned' = "ZeroDivisionError"
    /\ UNCHANGED <<user_id, topic, num_questions, questions, qi,
                   correct_answers, user_answer, accepted, presented, score,
                   saved>>
    /\ UNCHANGED <<parserVars, tableVars, clientVars, auxVars>>

\* lines 183-204: the score is computed, the result saved and the score
\* returned
QuizComplete ==
    /\ pc = "Scoring"
    /\ Len(questions) > 0
    /\ score' = Score(correct_answers, Len(questions))
    /\ saved' = SessionItem(score')
    /\ table' = put_item(table, saved')
    /\ returned' = score'
    /\ pc' = "Complete"
    /\ UNCHANGED <<user_id, topic, num_questions, questions, qi,
                   correct_answers, user_answer, accepted, presented>>
    /\ UNCHANGED <<parserVars, clock, clientVars, auxVars>>

\* lines 183-202 when put_item raises: save_quiz_result re-raises the
\* ClientError and run_quiz returns nothing
SaveFails ==
    /\ pc = "Scoring"
    /\ Len(questions) > 0
    /\ score' = Score(correct_answers, Len(questions))
    /\ returned' = "ClientError"
    /\ pc' = "Failed"
    /\ UNCHANGED <<user_id, topic, num_questions, questions, qi,
                   correct_answers, user_answer, accepted, presented, saved>>
    /\ UNCHANGED <<parserVars, tableVars, clientVars, auxVars>>

Next ==
    \/ QuizGenerated
    \/ QuizFailed
    \/ \E raw \in RawInputs : Answer(raw)
    \/ ScoreFails
    \/ QuizComplete
    \/ SaveFails
    \/ Tick

Spec == Init /\ [][Next]_vars

----------------------------------------------------------------------------
(* The session with a user who, at every prompt, eventually types a valid *)
(* letter, and a process that keeps running when it is not waiting for    *)
(* input.                                                                 *)

\* line 169 on the trimmed, upper-cased input line
ValidInput(raw) == Upper(Strip(raw)) \in {<<l>> : l \in Letters}

\* an input() that ends the while loop of lines 166-170
AnswerValid == \E raw \in RawInputs : ValidInput(raw) /\ Answer(raw)

\* an input() after which line 170 prints the message and the loop repeats
AnswerInvalid == \E raw \in RawInputs : ~ValidInput(raw) /\ Answer(raw)

\* the steps run_quiz takes after the loop, without waiting for the user
Proceed == ScoreFails \/ QuizComplete \/ SaveFails

\* one request, with the defaults of the command line, on an empty table
InitLive ==
    /\ Init
    /\ topic = "S3"
    /\ num_questions = DEFAULT_NUM_QUESTIONS
    /\ table = {}

SpecLive ==
    /\ InitLive
    /\ [][Next]_vars
    /\ WF_vars(AnswerValid)
    /\ WF_vars(Proceed)

----------------------------------------------------------------------------
(* Two client instances saving results: save_quiz_result, one step for the  *)
(* timestamp it reads and one for the put_item call                         *)

SaveArgs ==
    {[topic |-> "S3", score |-> <<0, 1>>, n |-> 1],
     [topic |-> "S3", score |-> <<100, 1>>, n |-> 2],
     [topic |-> "General Knowledge", score |-> <<50, 1>>, n |-> 2]}

InFlight == Cardinality({i \in Instances : spc[i] = "put"})

SumSaves ==
    LET RECURSIVE sum(_)
        sum(S) == IF S = {} THEN 0
                  ELSE LET u == CHOOSE x \in S : TRUE
                       IN  nsaves[u] + sum(S \ {u})
    IN  sum(Users)

InitStore ==
    /\ ParserIdle /\ SessionIdle /\ AuxIdle
    /\ table = {}
    /\ clock = 0
    /\ spc = [i \in Instances |-> "idle"]
    /\ sitem = [i \in Instances |-> NoItem]
    /\ suid \in [Instances -> Users]
    /\ nsaves = [u \in Users |-> 0]

\* lines 126-139: the timestamp is read and the Item built
SaveStart(i, a) ==
    /\ spc[i] = "idle"
    /\ SumSaves + InFlight < MaxSaves
    /\ sitem' = [sitem EXCEPT ![i] =
                    Item(suid[i], clock, a.topic, a.score, a.n, Difficulty)]
    /\ spc' = [spc EXCEPT ![i] = "put"]
    /\ UNCHANGED <<parserVars, sessionVars, tableVars, suid, nsaves, auxVars>>

\* lines 131-142: put_item succeeds
SavePut(i) ==
    /\ spc[i] = "put"
    /\ table' = put_item(table, sitem[i])
    /\ nsaves' = [nsaves EXCEPT ![suid[i]] = @ + 1]
    /\ spc' = [spc EXCEPT ![i] = "idle"]
    /\ UNCHANGED <<parserVars, sessionVars, clock, sitem, suid, auxVars>>

\* lines 144-146: put_item raises ClientError, which is re-raised
SaveError(i) ==
    /\ spc[i] = "put"
    /\ spc' = [spc EXCEPT ![i] = "idle"]
    /\ UNCHANGED <<parserVars, sessionVars, tableVars, sitem, suid, nsaves,
                   auxVars>>

NextStore ==
    \/ \E i \in Instances, a \in SaveArgs : SaveStart(i, a)
    \/ \E i \in Instances : SavePut(i)
    \/ \E i \in Instances : SaveError(i)
    \/ Tick

SpecStore == InitStore /\ [][NextStore]_vars

----------------------------------------------------------------------------
(* Claims about run_quiz, checked under Spec, and about the result store,   *)
(* checked under SpecStore                                                  *)

\* C6: the stored score equals correctAnswers / numQuestions * 100 for the
\* stored numQuestions, and the stored numQuestions is the number of
\* questions presented in the session.
C6_StoredScoreDerivable ==
    pc = "Complete" =>
        /\ saved \in table
        /\ saved.num_questions = Len(presented)
        /\ saved.score[1] * saved.num_questions
               = correct_answers * 100 * saved.score[2]

\* C7: a stored record is never replaced or removed by a later save: the
\* number of records stored for a user is the number of successful saves for
\* that user.
C7_AppendOnly ==
    \A u \in Users : Cardinality({r \in table : r.user_id = u}) = nsaves[u]

\* C8: questions are presented in list order, each once; question i+1 is
\* presented only after a valid answer to question i was accepted; the score
\* is computed only after every question has a valid answer; the state moves
\* NotStarted -> Presenting(0) -> ... -> Presenting(total-1) -> Scoring ->
\* Complete.
C8_SessionOrder ==
    /\ [](/\ presented = [j \in 1..Len(presented) |-> j - 1]
          /\ \A j \in 1..Len(accepted) :
                 accepted[j] \in {<<"A">>, <<"B">>, <<"C">>, <<"D">>}
          /\ pc = "NotStarted" => presented = <<>> /\ score = NoScore
          /\ pc = "Presenting" =>
                 /\ qi < Len(questions)
                 /\ Len(presented) = qi + 1
                 /\ Len(accepted) = qi
                 /\ score = NoScore
          /\ pc \in {"Scoring", "Complete"} =>
                 /\ Len(presented) = Len(questions)
                 /\ Len(accepted) = Len(questions)
          /\ score # NoScore => Len(accepted) = Len(questions)
          /\ pc = "Complete" => score # NoScore)
    /\ [][/\ pc = "NotStarted" => pc' \in {"NotStarted", "Presenting", "Scoring", "Failed"}
          /\ pc = "Presenting" =>
                 \/ pc' = "Presenting" /\ qi' \in {qi, qi + 1}
                 \/ pc' = "Scoring" /\ qi' = Len(questions)
          /\ pc = "Scoring" => pc' \in {"Scoring", "Complete", "Failed"}
          /\ pc \in {"Complete", "Failed"} => pc' = pc]_vars

C8_Witness ==
    /\ pc = "Complete"
    /\ Len(questions) >= 2
    /\ presented = [j \in 1..Len(questions) |-> j - 1]

\* C9: an input that, trimmed and upper-cased, is not one of A, B, C, D only
\* causes a re-prompt: the question index, the correct-count, the accepted
\* answers and the store are unchanged and the session neither ends nor fails;
\* only a valid letter leaves the prompt loop.
C9_InvalidReprompts ==
    [][/\ (/\ pc = "Presenting"
           /\ user_answer' # user_answer
           /\ user_answer' \notin {<<"A">>, <<"B">>, <<"C">>, <<"D">>})
          => /\ pc' = "Presenting"
             /\ qi' = qi
             /\ correct_answers' = correct_answers
             /\ accepted' = accepted
             /\ presented' = presented
             /\ table' = table
             /\ saved' = saved
             /\ score' = score
             /\ returned' = returned
       /\ (pc = "Presenting" /\ (pc' # pc \/ qi' # qi))
          => user_answer' \in {<<"A">>, <<"B">>, <<"C">>, <<"D">>}]_vars

C9_Witness ==
    /\ pc = "Presenting"
    /\ qi = 1
    /\ user_answer = <<"A", "B">>
    /\ Len(accepted) = 1

\* C10: at completion the correct-count is the number of questions whose
\* accepted answer equals the recorded answer letter, 0 <= correct <= total,
\* and the returned score is correct / total * 100, between 0 and 100
\* (3 of 5 gives 60, 0 of 5 gives 0, 5 of 5 gives 100).
C10_ScoreValue ==
    pc = "Complete" =>
        LET total == Len(questions)
            hits == {j \in 1..total : accepted[j] = <<questions[j].answer>>}
        IN  /\ correct_answers = Cardinality(hits)
            /\ 0 <= correct_answers /\ correct_answers <= total
            /\ returned[2] > 0
            /\ returned[1] * total = correct_answers * 100 * returned[2]
            /\ 0 <= returned[1] /\ returned[1] <= 100 * returned[2]
            /\ (total = 5 /\ correct_answers = 3) => returned = <<60, 1>>
            /\ (total = 5 /\ correct_answers = 0) => returned = <<0, 1>>
            /\ (total = 5 /\ correct_answers = 5) => returned = <<100, 1>>

C10_Witness ==
    /\ pc = "Complete"
    /\ Len(questions) = 5
    /\ correct_answers = 3
    /\ returned = <<60, 1>>

C20_EmptyQuizFails ==
    /\ []((questions = <<>> /\ pc # "NotStarted" /\ returned # "ClientError") =>
              /\ pc \in {"Scoring", "Failed"}
              /\ pc = "Scoring" => returned = None
              /\ pc = "Failed" => returned = "ZeroDivisionError"
              /\ presented = <<>> /\ accepted = <<>> /\ qi = 0
              /\ score = NoScore
              /\ saved = NoItem
              /\ table \in {{}, {OldItem}})
    /\ [][(pc = "Scoring" /\ questions = <<>> /\ pc' # pc) =>
              /\ pc' = "Failed"
              /\ returned' = "ZeroDivisionError"
              /\ table' = table]_vars

C20_Witness ==
    /\ pc = "Failed"
    /\ returned = "ZeroDivisionError"
    /\ questions = <<>>
    /\ table = {OldItem}

\* C17: the prompt loop has no retry limit.  While a question is presented
\* an invalid input is always possible and leaves the session at the same
\* question, neither failed nor advanced, so a user who never types a valid
\* letter keeps the session in Presenting(i) forever.  With a user who at
\* every prompt eventually types a valid letter, a session over a non-empty
\* list eventually leaves the loop and computes its score.
C17_NoRetryLimit ==
    /\ [](pc = "Presenting" => ENABLED AnswerInvalid)
    /\ [][(/\ pc = "Presenting"
           /\ user_answer' # user_answer
           /\ user_answer' \notin {<<"A">>, <<"B">>, <<"C">>, <<"D">>})
          => /\ pc' = "Presenting"
             /\ qi' = qi
             /\ returned' = None]_vars
    /\ (pc = "Presenting") ~> (pc # "Presenting" /\ score # NoScore)

C17_Witness ==
    /\ pc = "Presenting"
    /\ qi = 1
    /\ user_answer = <<>>
    /\ Len(questions) = 2

\* the text of the block's last option line with letter l
LastOptText(b, l) ==
    LET idx == {k \in 1..Len(b.optlines) : b.optlines[k].letter = l}
    IN  b.optlines[Max(idx)].text

\* no line after the explanation starts with an option letter
NoLetteredCont(b) ==
    \A k \in 1..Len(b.cont) : b.cont[k] = <<>> \/ b.cont[k][1] \notin Letters

\* C18: when a segment has several option lines with the same letter, the
\* text of the last of them is the text of that option and the letter counts
\* once: every Question emitted for a block carries, for each letter, the text
\* of the block's last option line with that letter, and the block with
\* option lines A, B, B, C, D yields one Question, with four options, whose B
\* is the later text.
C18_LastOptionWins ==
    Parsed =>
        /\ \A i \in 1..Len(input.blocks) :
               \A j \in 1..Len(structured_questions) :
                   LET b == input.blocks[i]
                       q == structured_questions[j]
                   IN  (q.question = b.stem /\ NoLetteredCont(b)) =>
                           /\ DOMAIN q.options =
                                  {b.optlines[k].letter : k \in 1..Len(b.optlines)}
                                      \cap {"A", "B", "C", "D"}
                           /\ \A l \in DOMAIN q.options :
                                  q.options[l] = LastOptText(b, l)
        /\ LET dups == {i \in 1..Len(input.blocks) : input.blocks[i] = BlockDupB}
               recs == {j \in 1..Len(structured_questions) :
                           structured_questions[j].question = <<"s8">>}
           IN  /\ Cardinality(recs) = Cardinality(dups)
               /\ \A j \in recs :
                      /\ structured_questions[j].options["B"] = <<"b8again">>
                      /\ Cardinality(DOMAIN structured_questions[j].options) = 4

C18_Witness ==
    /\ Parsed
    /\ input = [pre |-> PreNone, blocks |-> <<BlockDupB>>]
    /\ Len(structured_questions) = 1
    /\ structured_questions[1].options["B"] = <<"b8again">>

\* the first line of the text before the first marker, trimmed
PreambleStem == Strip(SplitLines(Strip(input.pre))[1])

\* C19: the text before the first marker is discarded: it is not one of the
\* segments the parser works on, no Question has it as its source, and a text
\* with no marker at all yields zero Questions.
C19_PreambleDiscarded ==
    Parsed =>
        /\ Len(raw_questions) = Len(input.blocks)
        /\ input.pre # PreNone =>
               /\ \A k \in 1..Len(raw_questions) :
                      raw_questions[k] # Strip(input.pre)
               /\ \A j \in 1..Len(structured_questions) :
                      structured_questions[j].question # PreambleStem
        /\ input.blocks = <<>> => structured_questions = <<>>

----------------------------------------------------------------------------
(* One quiz request: quiz_engine/generator.py create_quiz, with the call it *)
(* makes to rag_handler/knowledge_base.py retrieve_and_generate             *)

\* the topics a request may name; "general knowledge" in any case selects
\* the general quiz
GenTopics == {"S3", "General Knowledge", "general knowledge", "GENERAL KNOWLEDGE"}

\* topic.lower()
Lower(t) ==
    CASE t = "S3" -> "s3"
      [] t \in {"General Knowledge", "general knowledge", "GENERAL KNOWLEDGE"}
             -> "general knowledge"
      [] OTHER -> t

InitGen ==
    /\ ParserIdle /\ SessionIdle /\ ClientsIdle /\ TableIdle /\ IdIdle /\ ProvIdle
    /\ ReadIdle
    /\ gpc = "create_quiz"
    /\ gtopic \in GenTopics
    /\ generated_text = <<>>
    /\ rag_calls = 0
    /\ parse_calls = 0
    /\ gresult = None

\* create_quiz lines 40-43: the branch on the lower-cased topic
Dispatch ==
    /\ gpc = "create_quiz"
    /\ gpc' = IF Lower(gtopic) = "general knowledge"
              THEN "general_call" ELSE "topic_call"
    /\ UNCHANGED <<gtopic, generated_text, rag_calls, parse_calls, gresult>>
    /\ UNCHANGED nonGenVars

\* lines 84-88 / 141-145 and knowledge_base.py lines 95-112: the call
\* returns; generated_text is the text of the response, '' when the
\* response has none
RetrieveOK ==
    /\ gpc \in {"general_call", "topic_call"}
    /\ rag_calls' = rag_calls + 1
    /\ \E in \in Inputs : generated_text' = Render(in)
    /\ gpc' = IF gpc = "general_call" THEN "general_parse" ELSE "topic_parse"
    /\ UNCHANGED <<gtopic, parse_calls, gresult>>
    /\ UNCHANGED nonGenVars

\* mutant: a failed call is issued again
RetrieveError_Retry ==
    /\ gpc \in {"general_call", "topic_call"}
    /\ rag_calls < 3
    /\ rag_calls' = rag_calls + 1
    /\ UNCHANGED <<gpc, gtopic, generated_text, parse_calls, gresult>>
    /\ UNCHANGED nonGenVars

\* the call raises ClientError: knowledge_base.py lines 113-115 log it and
\* re-raise, generator.py lines 95-97 / 152-154 log it and re-raise
RetrieveError ==
    /\ gpc \in {"general_call", "topic_call"}
    /\ rag_calls' = rag_calls + 1
    /\ gresult' = "ClientError"
    /\ gpc' = "raised"
    /\ UNCHANGED <<gtopic, generated_text, parse_calls>>
    /\ UNCHANGED nonGenVars

\* lines 91-93 / 148-150: the text is parsed and the list returned
ParseGenerated ==
    /\ gpc \in {"general_parse", "topic_parse"}
    /\ parse_calls' = parse_calls + 1
    /\ gresult' = parse_questions(generated_text)
    /\ gpc' = "returned"
    /\ UNCHANGED <<gtopic, generated_text, rag_calls>>
    /\ UNCHANGED nonGenVars

NextGen == Dispatch \/ RetrieveOK \/ RetrieveError \/ ParseGenerated

SpecGen == InitGen /\ [][NextGen]_vars

\* C16: a quiz request, for a topic or for general knowledge, issues one
\* retrieve-and-generate call and hands the text it returned to the parser,
\* whose list it returns.  When the call fails the error is what the request
\* raises: no second call is made, the parser is not invoked and no list of
\* questions is returned.
C16_OneGenerationCall ==
    /\ rag_calls <= 1 /\ parse_calls <= rag_calls
    /\ gpc \in {"create_quiz", "general_call", "topic_call"} =>
           rag_calls = 0 /\ parse_calls = 0 /\ gresult = None
    /\ gpc \in {"general_call", "general_parse"} =>
           gtopic \in {"General Knowledge", "general knowledge", "GENERAL KNOWLEDGE"}
    /\ gpc \in {"topic_call", "topic_parse"} => gtopic = "S3"
    /\ gpc \in {"general_parse", "topic_parse"} =>
           rag_calls = 1 /\ parse_calls = 0 /\ gresult = None
    /\ gpc = "returned" =>
           /\ rag_calls = 1 /\ parse_calls = 1
           /\ gresult = parse_questions(generated_text)
    /\ gpc = "raised" =>
           /\ rag_calls = 1 /\ parse_calls = 0
           /\ gresult = "ClientError"
           /\ generated_text = <<>>

C16_Witness ==
    /\ gpc = "raised"
    /\ gtopic = "GENERAL KNOWLEDGE"
    /\ rag_calls = 1
    /\ gresult = "ClientError"

----------------------------------------------------------------------------
(* The user identity over successive runs: main.py _get_or_create_user_id, *)
(* called once by the constructor of every run, one run at a time          *)

MaxRuns == 3
Uuids == {"id1", "id2", "id3", "id4"}

\* config.get(key, default) on the object read from the file
Get(cfg, key, default) ==
    IF \E kv \in cfg : kv[1] = key
    THEN (CHOOSE kv \in cfg : kv[1] = key)[2]
    ELSE default

\* an installation never run, one whose directory exists, or one whose file
\* an earlier run of the application wrote
InitIdentity ==
    /\ ParserIdle /\ SessionIdle /\ ClientsIdle /\ TableIdle /\ GenIdle /\ ProvIdle
    /\ ReadIdle
    /\ \/ config_dir = FALSE /\ file_exists = FALSE /\ config = {}
       \/ config_dir = TRUE /\ file_exists = FALSE /\ config = {}
       \/ /\ config_dir = TRUE /\ file_exists = TRUE
          /\ \E u \in Uuids : config = {<<"user_id", u>>}
    /\ ipc = "idle"
    /\ cur_id = None
    /\ run_ids = <<>>
    /\ written = <<>>

\* a run starts: CertQuizApp.__init__ line 60
StartRun ==
    /\ ipc = "idle"
    /\ Len(run_ids) < MaxRuns
    /\ ipc' = "makedirs"
    /\ cur_id' = None
    /\ UNCHANGED <<config_dir, file_exists, config, run_ids, written>>
    /\ UNCHANGED nonIdVars

\* line 74: os.makedirs(config_dir, exist_ok=True)
MakeDirs ==
    /\ ipc = "makedirs"
    /\ config_dir' = TRUE
    /\ ipc' = "exists"
    /\ UNCHANGED <<file_exists, config, cur_id, run_ids, written>>
    /\ UNCHANGED nonIdVars

\* line 77: os.path.exists(config_file)
CheckExists ==
    /\ ipc = "exists"
    /\ ipc' = IF file_exists THEN "load" ELSE "generate"
    /\ UNCHANGED <<config_dir, file_exists, config, cur_id, run_ids, written>>
    /\ UNCHANGED nonIdVars

\* mutant: a later run ignores the stored id and uses a new one
LoadId_Fresh ==
    /\ ipc = "load"
    /\ \E u \in Uuids : run_ids' = Append(run_ids, u)
    /\ ipc' = "idle"
    /\ UNCHANGED <<config_dir, file_exists, config, cur_id, written>>
    /\ UNCHANGED nonIdVars

\* lines 78-80: the file is read and config.get("user_id", str(uuid.uuid4()))
\* returned; the default is evaluated on every call and used only when the
\* object has no user_id
LoadId ==
    /\ ipc = "load"
    /\ \E u \in Uuids : run_ids' = Append(run_ids, Get(config, "user_id", u))
    /\ ipc' = "idle"
    /\ UNCHANGED <<config_dir, file_exists, config, cur_id, written>>
    /\ UNCHANGED nonIdVars

\* line 83: user_id = str(uuid.uuid4())
GenerateId ==
    /\ ipc = "generate"
    /\ \E u \in Uuids : cur_id' = u
    /\ ipc' = "write"
    /\ UNCHANGED <<config_dir, file_exists, config, run_ids, written>>
    /\ UNCHANGED nonIdVars

\* lines 84-85: json.dump({"user_id": user_id}, f)
WriteId ==
    /\ ipc = "write"
    /\ file_exists' = TRUE
    /\ config' = {<<"user_id", cur_id>>}
    /\ written' = Append(written, cur_id)
    /\ ipc' = "return"
    /\ UNCHANGED <<config_dir, cur_id, run_ids>>
    /\ UNCHANGED nonIdVars

\* line 87: return user_id
ReturnId ==
    /\ ipc = "return"
    /\ run_ids' = Append(run_ids, cur_id)
    /\ ipc' = "idle"
    /\ UNCHANGED <<config_dir, file_exists, config, cur_id, written>>
    /\ UNCHANGED nonIdVars

NextIdentity ==
    \/ StartRun \/ MakeDirs \/ CheckExists \/ LoadId
    \/ GenerateId \/ WriteId \/ ReturnId

SpecIdentity == InitIdentity /\ [][NextIdentity]_vars

\* C12: over any sequence of runs on one installation every run gets the same
\* user id.  An id is generated and written only by a run that finds no
\* identity file; once the file exists it is never rewritten, and every run
\* gets the id stored in it.
C12_SameUserId ==
    /\ [](/\ \A i, j \in 1..Len(run_ids) : run_ids[i] = run_ids[j]
          /\ file_exists =>
                 /\ \E u \in {"id1", "id2", "id3", "id4"} : config = {<<"user_id", u>>}
                 /\ \A i \in 1..Len(run_ids) : config = {<<"user_id", run_ids[i]>>}
          /\ ~file_exists => run_ids = <<>> /\ written = <<>>
          /\ Len(written) <= 1
          /\ \A i \in 1..Len(written) : config = {<<"user_id", written[i]>>}
          /\ ipc = "return" => config = {<<"user_id", cur_id>>})
    /\ [][/\ (file_exists' # file_exists \/ config' # config) =>
                 ~file_exists /\ ipc = "write" /\ config' = {<<"user_id", cur_id>>}
          /\ cur_id' \notin {cur_id, None} => ~file_exists]_vars

C12_Witness ==
    /\ run_ids = <<"id2", "id2", "id2">>
    /\ written = <<"id2">>
    /\ ipc = "idle"
    /\ config = {<<"user_id", "id2">>}

----------------------------------------------------------------------------
(* Provisioning: DynamoDBClient.__init__, _ensure_table_exists and         *)
(* _create_table, run by two instances that share the table                *)

MaxConstructs == 2

NoSchema == [key |-> <<>>, TopicIndex |-> <<>>]

\* the records the table may hold when a client is constructed
OldItems == {{}, {OldItem}, {OldItem, Item("u2", 1, "S3", <<100, 1>>, 2, Difficulty)}}

InitProvision ==
    /\ ParserIdle /\ SessionIdle /\ ClientsIdle /\ GenIdle /\ IdIdle /\ ReadIdle
    /\ clock = 0
    /\ \/ tstate = "absent" /\ tschema = NoSchema /\ table = {}
       \/ tstate = "active" /\ tschema = Schema /\ table \in OldItems
    /\ cpc = [i \in Instances |-> "idle"]
    /\ chk = [i \in Instances |-> None]
    /\ ncreate = [i \in Instances |-> 0]
    /\ nctor = [i \in Instances |-> 0]

\* lines 19-31: DynamoDBClient(...) is constructed
Construct(i) ==
    /\ cpc[i] \in {"idle", "ready", "failed"}
    /\ nctor[i] < MaxConstructs
    /\ nctor' = [nctor EXCEPT ![i] = @ + 1]
    /\ cpc' = [cpc EXCEPT ![i] = "check"]
    /\ chk' = [chk EXCEPT ![i] = None]
    /\ ncreate' = [ncreate EXCEPT ![i] = 0]
    /\ UNCHANGED <<tstate, tschema, tableVars>>
    /\ UNCHANGED nonProvVars

\* lines 37-39: table_status is read without error; the constructor returns
CheckFound(i) ==
    /\ cpc[i] = "check"
    /\ tstate # "absent"
    /\ chk' = [chk EXCEPT ![i] = "exists"]
    /\ cpc' = [cpc EXCEPT ![i] = "ready"]
    /\ UNCHANGED <<tstate, tschema, ncreate, nctor, tableVars>>
    /\ UNCHANGED nonProvVars

\* lines 40-43: ClientError with code ResourceNotFoundException
CheckNotFound(i) ==
    /\ cpc[i] = "check"
    /\ tstate = "absent"
    /\ chk' = [chk EXCEPT ![i] = "ResourceNotFoundException"]
    /\ cpc' = [cpc EXCEPT ![i] = "create"]
    /\ UNCHANGED <<tstate, tschema, ncreate, nctor, tableVars>>
    /\ UNCHANGED nonProvVars

\* lines 44-46: ClientError with any other code is logged and re-raised
CheckError(i) ==
    /\ cpc[i] = "check"
    /\ chk' = [chk EXCEPT ![i] = "OtherError"]
    /\ cpc' = [cpc EXCEPT ![i] = "failed"]
    /\ UNCHANGED <<tstate, tschema, ncreate, nctor, tableVars>>
    /\ UNCHANGED nonProvVars

\* mutant: create_table on an existing table replaces it with an empty one
CreateTable_Replace(i) ==
    /\ cpc[i] = "create"
    /\ ncreate' = [ncreate EXCEPT ![i] = @ + 1]
    /\ tstate' = "creating"
    /\ tschema' = Schema
    /\ table' = {}
    /\ cpc' = [cpc EXCEPT ![i] = "wait"]
    /\ UNCHANGED <<chk, nctor, clock>>
    /\ UNCHANGED nonProvVars

\* lines 53-105: create_table.  On an absent table it starts the creation;
\* on a table another instance has created meanwhile the service answers
\* ResourceInUseException, a ClientError that lines 111-113 re-raise
CreateTable(i) ==
    /\ cpc[i] = "create"
    /\ ncreate' = [ncreate EXCEPT ![i] = @ + 1]
    /\ IF tstate = "absent"
       THEN /\ tstate' = "creating"
            /\ tschema' = Schema
            /\ cpc' = [cpc EXCEPT ![i] = "wait"]
       ELSE /\ UNCHANGED <<tstate, tschema>>
            /\ cpc' = [cpc EXCEPT ![i] = "failed"]
    /\ UNCHANGED <<chk, nctor, tableVars>>
    /\ UNCHANGED nonProvVars

\* create_table raises another ClientError (lines 111-113): nothing is created
CreateError(i) ==
    /\ cpc[i] = "create"
    /\ ncreate' = [ncreate EXCEPT ![i] = @ + 1]
    /\ cpc' = [cpc EXCEPT ![i] = "failed"]
    /\ UNCHANGED <<tstate, tschema, chk, nctor, tableVars>>
    /\ UNCHANGED nonProvVars

\* the service finishes creating the table
TableActive ==
    /\ tstate = "creating"
    /\ tstate' = "active"
    /\ UNCHANGED <<tschema, cpc, chk, ncreate, nctor, tableVars>>
    /\ UNCHANGED nonProvVars

\* line 108: the table_exists waiter returns
WaitDone(i) ==
    /\ cpc[i] = "wait"
    /\ tstate = "active"
    /\ cpc' = [cpc EXCEPT ![i] = "ready"]
    /\ UNCHANGED <<tstate, tschema, chk, ncreate, nctor, tableVars>>
    /\ UNCHANGED nonProvVars

NextProvision ==
    \/ \E i \in Instances : Construct(i)
    \/ \E i \in Instances : CheckFound(i)
    \/ \E i \in Instances : CheckNotFound(i)
    \/ \E i \in Instances : CheckError(i)
    \/ \E i \in Instances : CreateTable(i)
    \/ \E i \in Instances : CreateError(i)
    \/ TableActive
    \/ \E i \in Instances : WaitDone(i)

SpecProvision == InitProvision /\ [][NextProvision]_vars

\* C15: provisioning is idempotent.  A construction calls create_table only
\* after its existence check answered that the table does not exist, and at
\* most once; the table it creates has the primary key (user_id, timestamp)
\* and the secondary key (user_id, topic).  A construction whose check finds
\* the table succeeds without a create, a check that fails in any other way
\* is raised without a create, and no step of any construction changes an
\* existing table or its records.
C15_ProvisionIdempotent ==
    /\ [](\A i \in {1, 2} :
              /\ ncreate[i] <= 1
              /\ ncreate[i] = 1 => chk[i] = "ResourceNotFoundException"
              /\ cpc[i] \in {"create", "wait"} => chk[i] = "ResourceNotFoundException"
              /\ chk[i] = "exists" => cpc[i] = "ready" /\ ncreate[i] = 0
              /\ chk[i] = "OtherError" => cpc[i] = "failed" /\ ncreate[i] = 0
              /\ cpc[i] = "ready" => tstate # "absent")
    /\ [](tstate # "absent" =>
              tschema = [key |-> <<"user_id", "timestamp">>,
                         TopicIndex |-> <<"user_id", "topic">>])
    /\ [][/\ tstate # "absent" =>
                 table' = table /\ tschema' = tschema /\ tstate' # "absent"
          /\ tstate' # tstate =>
                 \/ tstate = "creating" /\ tstate' = "active"
                 \/ /\ tstate = "absent" /\ tstate' = "creating"
                    /\ \E i \in {1, 2} :
                           /\ chk[i] = "ResourceNotFoundException"
                           /\ ncreate'[i] = 1 /\ ncreate[i] = 0]_vars

C15_Witness ==
    /\ tstate = "active"
    /\ table = {OldItem}
    /\ nctor[1] = 2 /\ cpc[1] = "ready" /\ chk[1] = "exists"
    /\ cpc[2] = "ready" /\ chk[2] = "exists"

----------------------------------------------------------------------------
(* Python floats.  A float is binary64: 53 significant bits, every result  *)
(* rounded to nearest, ties to even.  The floats of this model are 0 and   *)
(* values from 4 up to 2048; such a value is a whole number of units of    *)
(* 2^-50, written as three limbs <<l0, l1, l2>> of 20 bits, l0 lowest, so  *)
(* that no intermediate result exceeds 31 bits.                            *)

Limb == 1048576

FZero == <<0, 0, 0>>

FLess(x, y) ==
    \/ x[3] < y[3]
    \/ x[3] = y[3] /\ x[2] < y[2]
    \/ x[3] = y[3] /\ x[2] = y[2] /\ x[1] < y[1]

FLeq(x, y) == x = y \/ FLess(x, y)

\* carries propagated upward
Normal(x) ==
    LET c1 == x[1] \div Limb
        m2 == x[2] + c1
        c2 == m2 \div Limb
    IN  <<x[1] % Limb, m2 % Limb, x[3] + c2>>

\* the exact sum
ExactAdd(x, y) == Normal(<<x[1] + y[1], x[2] + y[2], x[3] + y[3]>>)

\* the spacing, in units, of the floats around x: 1 below 2^53 units, and
\* doubling with every further bit
Quantum(x) ==
    CHOOSE q \in {1, 2, 4, 8, 16, 32, 64, 128, 256} :
        /\ x[3] < 8192 * q
        /\ q = 1 \/ x[3] >= 4096 * q

\* x rounded to a multiple of q, ties to the even multiple
RoundTo(x, q) ==
    LET r == x[1] % q
        down == <<x[1] - r, x[2], x[3]>>
        odd == (x[1] \div q) % 2 = 1
    IN  IF 2 * r < q \/ (2 * r = q /\ ~odd)
        THEN down
        ELSE ExactAdd(down, <<q, 0, 0>>)

\* x + y
FAdd(x, y) ==
    LET e == ExactAdd(x, y)
    IN  RoundTo(e, Quantum(e))

\* quotient and remainder of x by a small divisor d
DivMod(x, d) ==
    LET q3 == x[3] \div d
        r3 == x[3] % d
        n2 == r3 * Limb + x[2]
        q2 == n2 \div d
        r2 == n2 % d
        n1 == r2 * Limb + x[1]
    IN  [quot |-> <<n1 \div d, q2, q3>>, rem |-> n1 % d]

\* x times a small factor
Times(x, k) == Normal(<<x[1] * k, x[2] * k, x[3] * k>>)

\* x / n for an int n > 0
FDivInt(x, n) ==
    LET q == Quantum(DivMod(x, n).quot)
        dm == DivMod(x, n * q)
        odd == dm.quot[1] % 2 = 1
        up == 2 * dm.rem > n * q \/ (2 * dm.rem = n * q /\ odd)
    IN  Times(IF up THEN ExactAdd(dm.quot, <<1, 0, 0>>) ELSE dm.quot, q)

\* (correct / total) * 100 as main.py line 184 computes it, for the scores of
\* this model; the store keeps Decimal(str(score)), which float() reads back
\* as the same float
ToFloat(sc) ==
    CASE sc = <<0, 1>> -> FZero
      [] sc = <<50, 1>> -> <<0, 0, 51200>>
      [] sc = <<100, 1>> -> <<0, 0, 102400>>
      [] sc = <<100, 3>> -> <<349520, 349525, 34133>>
      [] sc = <<200, 3>> -> <<699040, 699050, 68266>>
      [] sc = <<400, 9>> -> <<466032, 116508, 45511>>

----------------------------------------------------------------------------
(* The read operations of the store: get_user_results and                  *)
(* get_topic_statistics, called by one client between its saves            *)

MaxLimit == 2
TicksPerSecond == 2

\* datetime.isoformat() of the clock reading c: the seconds field, and the
\* fraction only when it is not zero
IsoFormat(c) ==
    IF c % TicksPerSecond = 0
    THEN <<c \div TicksPerSecond>>
    ELSE <<c \div TicksPerSecond, ".", c % TicksPerSecond>>

\* the order of the sort key, a string: fields of fixed width compare as
\* numbers, and a string is less than any string it is a proper prefix of
StrLess(a, b) ==
    \/ a[1] < b[1]
    \/ a[1] = b[1] /\ Len(a) < Len(b)
    \/ a[1] = b[1] /\ Len(a) = 3 /\ Len(b) = 3 /\ a[3] < b[3]

KeyLess(r, o) == StrLess(IsoFormat(r.timestamp), IsoFormat(o.timestamp))

\* mutant: the query reads the partition forward (oldest first)
Query_Forward(t, u, limit) ==
    LET RECURSIVE take(_, _)
        take(S, n) ==
            IF n = 0 \/ S = {} THEN <<>>
            ELSE LET m == CHOOSE r \in S : \A o \in S : o = r \/ KeyLess(r, o)
                 IN  <<m>> \o take(S \ {m}, n - 1)
    IN  take({r \in t : r.user_id = u}, limit)

\* table.query(KeyConditionExpression=Key('user_id').eq(u),
\*             ScanIndexForward=False, Limit=limit)['Items']
Query(t, u, limit) ==
    LET RECURSIVE take(_, _)
        take(S, n) ==
            IF n = 0 \/ S = {} THEN <<>>
            ELSE LET m == CHOOSE r \in S : \A o \in S : o = r \/ KeyLess(o, r)
                 IN  <<m>> \o take(S \ {m}, n - 1)
    IN  take({r \in t : r.user_id = u}, limit)

\* table.query(IndexName='TopicIndex', user_id = u and topic = tp)['Items'],
\* in the order of the table's sort key
QueryTopic(t, u, tp) ==
    LET RECURSIVE list(_)
        list(S) ==
            IF S = {} THEN <<>>
            ELSE LET m == CHOOSE r \in S : \A o \in S : o = r \/ KeyLess(r, o)
                 IN  <<m>> \o list(S \ {m})
    IN  list({r \in t : r.user_id = u /\ r.topic = tp})

\* sum(scores), left to right from 0
FSum(scores) ==
    LET RECURSIVE go(_)
        go(n) == IF n = 0 THEN FZero ELSE FAdd(go(n - 1), scores[n])
    IN  go(Len(scores))

FMax(scores) ==
    scores[CHOOSE i \in 1..Len(scores) : \A j \in 1..Len(scores) : FLeq(scores[j], scores[i])]

FMin(scores) ==
    scores[CHOOSE i \in 1..Len(scores) : \A j \in 1..Len(scores) : FLeq(scores[i], scores[j])]

SumQuestions(results) ==
    LET RECURSIVE go(_)
        go(n) == IF n = 0 THEN 0 ELSE go(n - 1) + results[n].num_questions
    IN  go(Len(results))

\* lines 194-217: the dict get_topic_statistics returns
Stats(results) ==
    IF results = <<>>
    THEN [attempts |-> 0, average_score |-> FZero, highest_score |-> FZero,
          lowest_score |-> FZero, total_questions |-> 0]
    ELSE LET scores == [i \in 1..Len(results) |-> ToFloat(results[i].score)]
         IN  [attempts |-> Len(results),
              average_score |-> FDivInt(FSum(scores), Len(scores)),
              highest_score |-> FMax(scores),
              lowest_score |-> FMin(scores),
              total_questions |-> SumQuestions(results)]

\* the arguments of the saves: the records of SaveArgs and a quiz of nine
\* questions with four correct answers
ReadArgs == SaveArgs \cup {[topic |-> "S3", score |-> Score(4, 9), n |-> 9]}

InitReads ==
    /\ ParserIdle /\ SessionIdle /\ ClientsIdle /\ GenIdle /\ IdIdle /\ ProvIdle
    /\ table = {}
    /\ clock = 0
    /\ ret = NoRet

\* save_quiz_result as one step of this client; the clock has moved on when
\* the call returns
SaveResult(u, a) ==
    /\ Cardinality(table) < MaxSaves
    /\ table' = put_item(table, Item(u, clock, a.topic, a.score, a.n, Difficulty))
    /\ clock' = clock + 1
    /\ ret' = [op |-> "save_quiz_result", user |-> u, arg |-> a.topic,
               raised |-> FALSE, value |-> None]
    /\ UNCHANGED nonReadVars

\* get_user_results lines 161-168
GetUserResults(u, limit) ==
    /\ ret' = [op |-> "get_user_results", user |-> u, arg |-> limit,
               raised |-> FALSE, value |-> Query(table, u, limit)]
    /\ UNCHANGED tableVars
    /\ UNCHANGED nonReadVars

\* get_topic_statistics lines 187-217
GetTopicStatistics(u, tp) ==
    /\ ret' = [op |-> "get_topic_statistics", user |-> u, arg |-> tp,
               raised |-> FALSE, value |-> Stats(QueryTopic(table, u, tp))]
    /\ UNCHANGED tableVars
    /\ UNCHANGED nonReadVars

\* a query raises ClientError, which both operations log and re-raise
\* (lines 170-172 and 219-221)
ReadError(o, u) ==
    /\ ret' = [op |-> o, user |-> u, arg |-> None, raised |-> TRUE,
               value |-> None]
    /\ UNCHANGED tableVars
    /\ UNCHANGED nonReadVars

TickReads ==
    /\ clock < MaxClock
    /\ clock' = clock + 1
    /\ UNCHANGED <<table, ret>>
    /\ UNCHANGED nonReadVars

NextReads ==
    \/ \E u \in Users, a \in ReadArgs : SaveResult(u, a)
    \/ \E u \in Users, limit \in 1..MaxLimit : GetUserResults(u, limit)
    \/ \E u \in Users, tp \in Topics : GetTopicStatistics(u, tp)
    \/ \E o \in {"get_user_results", "get_topic_statistics"}, u \in Users :
           ReadError(o, u)
    \/ TickReads

SpecReads == InitReads /\ [][NextReads]_vars

\* C13: get_user_results(userId, limit) returns records of that user only, at
\* most limit of them, and they are the most recent ones by timestamp, newest
\* first: with more than limit records stored it returns exactly the limit
\* newest, with fewer it returns them all.
C13_NewestFirst ==
    (ret.op = "get_user_results" /\ ~ret.raised) =>
        LET v == ret.value
            mine == {r \in table : r.user_id = ret.user}
            got == {v[k] : k \in 1..Len(v)}
        IN  /\ got \subseteq mine
            /\ Cardinality(got) = Len(v)
            /\ Len(v) = IF Cardinality(mine) > ret.arg
                        THEN ret.arg ELSE Cardinality(mine)
            /\ \A k \in 1..(Len(v) - 1) : v[k].timestamp > v[k + 1].timestamp
            /\ \A r \in mine \ got : \A k \in 1..Len(v) :
                   r.timestamp < v[k].timestamp

C13_Witness ==
    /\ ret.op = "get_user_results" /\ ~ret.raised
    /\ ret.user = "u1" /\ ret.arg = 2
    /\ Cardinality({r \in table : r.user_id = "u1"}) = 3
    /\ Len(ret.value) = 2
    /\ ret.value[1].timestamp = 2 /\ ret.value[2].timestamp = 1

\* C14: get_topic_statistics(userId, topic) aggregates exactly the stored
\* records with that user and that topic: attempts is their number,
\* total_questions the sum of their question counts, highest and lowest their
\* largest and smallest score, and the average lies between lowest and
\* highest; with no such record attempts and all numeric fields are 0.
C14_TopicStatistics ==
    (ret.op = "get_topic_statistics" /\ ~ret.raised) =>
        LET st == ret.value
            recs == {r \in table : r.user_id = ret.user /\ r.topic = ret.arg}
            scores == {ToFloat(r.score) : r \in recs}
        IN  /\ st.attempts = Cardinality(recs)
            /\ st.total_questions = SumQuestions(QueryTopic(table, ret.user, ret.arg))
            /\ recs = {} =>
                   /\ st.average_score = <<0, 0, 0>>
                   /\ st.highest_score = <<0, 0, 0>>
                   /\ st.lowest_score = <<0, 0, 0>>
                   /\ st.total_questions = 0
            /\ recs # {} =>
                   /\ st.highest_score \in scores
                   /\ st.lowest_score \in scores
                   /\ \A x \in scores :
                          FLeq(st.lowest_score, x) /\ FLeq(x, st.highest_score)
                   /\ FLeq(st.lowest_score, st.average_score)
                   /\ FLeq(st.average_score, st.highest_score)

====
